---- MODULE Spec2Model ----
(***************************************************************************)
(* The book controller of xb-api: getBooks (the listing orchestrator with  *)
(* its redis cache), postBooks, putBooks and deleteBook, as a state        *)
(* machine whose steps are the awaits of the handlers.                     *)
(***************************************************************************)
EXTENDS Integers, Sequences, FiniteSets, TLC

\* ---------------------------------------------------------------- bounds
\* Number of record slots of the books collection.
MaxBooks == 2
BookIds == 1..MaxBooks
\* The request slots: two requests can be in flight together.
Reqs == {1, 2}

\* ------------------------------------------------------ JavaScript values
\* A JavaScript number, undefined or NaN, as the handlers see them.
Undefined == [t |-> "undefined", v |-> 0]
NaN == [t |-> "NaN", v |-> 0]
Num(n) == [t |-> "num", v |-> n]
IsNum(x) == x.t = "num"
\* JavaScript truthiness of a number-or-undefined: `!x` is ~Truthy(x).
Truthy(x) == IsNum(x) /\ x.v # 0
\* a - b and a * b: undefined and NaN operands give NaN.
JsSub(a, b) == IF IsNum(a) /\ IsNum(b) THEN Num(a.v - b.v) ELSE NaN
JsMul(a, b) == IF IsNum(a) /\ IsNum(b) THEN Num(a.v * b.v) ELSE NaN

\* Request bodies as express.json() leaves them in req.body: the empty object
\* (also when the request has no body), an object holding a book, the empty array.
Books == {"A", "B"}
NoBook == "none"
EmptyObject == [t |-> "object", book |-> NoBook]
BookBody(b) == [t |-> "object", book |-> b]
EmptyArray == [t |-> "array", book |-> NoBook]
Bodies == {EmptyObject, EmptyArray} \cup {BookBody(b) : b \in Books}

\* `${body}`: the template literal calls toString, which for every plain
\* object is "[object Object]" whatever the object holds, and for an array the
\* join of its elements: the empty string for the empty array.
toString(body) == IF body.t = "array" THEN "" ELSE "[object Object]"
\* const key = `books_${body}`
Key(body) == "books_" \o toString(body)
Keys == {Key(b) : b \in Bodies}

\* ------------------------------------------------------------- the store
Min(a, b) == IF a < b THEN a ELSE b

RECURSIVE RecordsFrom(_, _)
RecordsFrom(s, i) ==
  IF i > MaxBooks THEN <<>>
  ELSE (IF s[i] # NoBook THEN <<[id |-> i, book |-> s[i]]>> ELSE <<>>)
       \o RecordsFrom(s, i + 1)
\* Every record of the collection, in identifier order.
AllRecords(s) == RecordsFrom(s, 1)

\* skip() of the store rejects a negative offset; an absent one skips nothing.
ValidQuery(limit, offset) == ~IsNum(offset) \/ offset.v >= 0
findBooks(s, limit, offset) ==
  LET all == AllRecords(s)
      total == Len(all)
      skip == IF IsNum(offset) THEN offset.v ELSE 0
      lim == IF Truthy(limit) THEN limit.v ELSE total
  IN [results |-> IF skip >= total THEN <<>>
                  ELSE SubSeq(all, skip + 1, Min(total, skip + lim)),
      totalBooks |-> total]

\* The smallest free identifier (0 when the collection is full).
FreeId(s) ==
  IF \E i \in BookIds : s[i] = NoBook
  THEN CHOOSE i \in BookIds : s[i] = NoBook /\ \A j \in BookIds : s[j] = NoBook => i <= j
  ELSE 0

\* ------------------------------------------------- pagination middleware
\* req.pagination = { page, limit, offset }
pagination(page, limit) ==
  [page |-> page, limit |-> limit, offset |-> JsMul(JsSub(page, Num(1)), limit)]
\* req.calculatePagination(totalBooks) sets req.paginationInfo
CeilDiv(a, b) == (a + b - 1) \div b
calculatePagination(page, limit, offset, totalBooks) ==
  [totalItems |-> totalBooks, itemsPerPage |-> limit.v, currentPage |-> page.v,
   totalPages |-> CeilDiv(totalBooks, limit.v), offset |-> offset.v]
NoInfo ==
  [totalItems |-> 0, itemsPerPage |-> 0, currentPage |-> 0, totalPages |-> 0, offset |-> 0]

\* --------------------------------------------------------------- the cache
\* JSON.stringify(response) and JSON.parse(cachedData) of { info, results }.
JSON_stringify(response) ==
  <<"{info,results}", response.info.totalItems, response.info.itemsPerPage,
    response.info.currentPage, response.info.totalPages, response.info.offset,
    response.results>>
JSON_parse(text) ==
  [info |-> [totalItems |-> text[2], itemsPerPage |-> text[3], currentPage |-> text[4],
             totalPages |-> text[5], offset |-> text[6]],
   results |-> text[7]]

NoTTL == -1
TTL == 300
NoEntry == [present |-> FALSE, value |-> <<>>, ttl |-> NoTTL]
\* The currentPage of the response an entry holds (0: no entry).
PageOf(e) == IF e.present THEN e.value[4] ELSE 0
Entry(value, ttl) == [present |-> TRUE, value |-> value, ttl |-> ttl]
\* redis DEL, GET, SET (which also clears the TTL of the key) and EXPIRE (which
\* does nothing to a missing key and removes the key when the TTL is not positive).
redis_del(c, key) == [c EXCEPT ![key] = NoEntry]
redis_get(c, key) == c[key]
redis_set(c, key, value) == [c EXCEPT ![key] = Entry(value, NoTTL)]
redis_expire(c, key, ttl) ==
  IF ~c[key].present THEN c
  ELSE IF ttl <= 0 THEN [c EXCEPT ![key] = NoEntry]
  ELSE [c EXCEPT ![key].ttl = ttl]

\* ------------------------------------------------------------------ state
VARIABLES
  store,     \* the books collection: identifier -> content, NoBook when absent
  cache,     \* redis: key -> entry
  req,       \* the request handled in each slot: inputs, position, locals, outcome
  ops,       \* per slot, the store and cache operations issued so far
  refilled,  \* per slot: another request set this request's key since its del
  lastSet,   \* per key: the slot whose cache set was the last one (0: none)
  removed    \* per key: what removed the entry of the last set, if anything did

vars == <<store, cache, req, ops, refilled, lastSet, removed>>

\* req.query.detail: absent, a string, or an array (detail=a&detail=b).
NoDetail == [t |-> "undefined", s |-> ""]
Detail(str) == [t |-> "string", s |-> str]
DetailArray(str) == [t |-> "array", s |-> str]

NoOutcome == [via |-> "none", status |-> 0, err |-> "", payload |-> <<>>]
Json(status, payload) == [via |-> "json", status |-> status, err |-> "", payload |-> payload]
NextErr(err) == [via |-> "next", status |-> 0, err |-> err, payload |-> <<>>]

IdleReq ==
  [kind |-> "none", pc |-> "idle", page |-> Undefined, limit |-> Undefined,
   offset |-> Undefined, body |-> EmptyObject, id |-> 0, results |-> <<>>,
   totalBooks |-> 0, info |-> NoInfo, cached |-> "unread", outcome |-> NoOutcome,
   bg |-> "none", detail |-> NoDetail]

\* A logged operation: its name, whether it succeeded, the cache key it was
\* given (cache operations), and its arguments or what it met: <<limit, offset>>
\* for findBooks, the keys that held an entry for the expire of postBooks.
Op(name, ok, key, args) == [op |-> name, ok |-> ok, key |-> key, args |-> args]
Log(r, name, ok, key) == [ops EXCEPT ![r] = Append(@, Op(name, ok, key, <<>>))]
LogSeen(r, name, key, seen) == [ops EXCEPT ![r] = Append(@, Op(name, TRUE, key, <<seen>>))]
LogFind(r, ok, limit, offset) ==
  [ops EXCEPT ![r] = Append(@, Op("find", ok, "", <<limit, offset>>))]

\* What became of the entry of the last set of a key: still in place (or no set
\* yet), or gone; when a del of a listing request removed it, the page of the
\* response it held.
InPlace == [by |-> "none", page |-> 0]
Gone == [by |-> "gone", page |-> 0]
RemovedBy(what, c, key) ==
  IF what = "del" /\ c[key].present
  THEN [removed EXCEPT ![key] = [by |-> "del", page |-> PageOf(c[key])]]
  ELSE IF removed[key] = InPlace THEN [removed EXCEPT ![key] = Gone]
  ELSE removed

Init ==
  /\ store \in [BookIds -> {NoBook, "A"}]
  /\ cache = [k \in Keys |-> NoEntry]
  /\ req = [r \in Reqs |-> IdleReq]
  /\ ops = [r \in Reqs |-> <<>>]
  /\ refilled = [r \in Reqs |-> FALSE]
  /\ lastSet = [k \in Keys |-> 0]
  /\ removed = [k \in Keys |-> InPlace]

\* ------------------------------------------------------------- getBooks
\* A faulty variant of the head: the paginated path reads the cache first.
getBooks_read_first(r, page, limit, body) ==
  /\ req[r].pc = "idle"
  /\ LET p == pagination(page, limit)
     IN req' = [req EXCEPT ![r] =
                  [IdleReq EXCEPT !.kind = "getBooks", !.page = p.page, !.limit = p.limit,
                                  !.offset = p.offset, !.body = body,
                                  !.pc = IF ~Truthy(p.limit) \/ ~Truthy(p.page)
                                         THEN "unpaged_del" ELSE "paged_get"]]
  /\ ops' = [ops EXCEPT ![r] = <<>>]
  /\ refilled' = [refilled EXCEPT ![r] = FALSE]
  /\ UNCHANGED <<store, cache, lastSet, removed>>

\* The synchronous head of getBooks: the key, req.pagination, and the test
\* `!limit || !page` that picks the unpaged or the paginated path.
getBooks(r, page, limit, body) ==
  /\ req[r].pc = "idle"
  /\ LET p == pagination(page, limit)
     IN req' = [req EXCEPT ![r] =
                  [IdleReq EXCEPT !.kind = "getBooks", !.page = p.page, !.limit = p.limit,
                                  !.offset = p.offset, !.body = body,
                                  !.pc = IF ~Truthy(p.limit) \/ ~Truthy(p.page)
                                         THEN "unpaged_del" ELSE "paged_del"]]
  /\ ops' = [ops EXCEPT ![r] = <<>>]
  /\ refilled' = [refilled EXCEPT ![r] = FALSE]
  /\ UNCHANGED <<store, cache, lastSet, removed>>

\* Unpaged path: await redis.del(key)
getBooks_unpaged_del(r) ==
  /\ req[r].pc = "unpaged_del"
  /\ LET key == Key(req[r].body)
     IN /\ cache' = redis_del(cache, key)
        /\ removed' = RemovedBy("del", cache, key)
        /\ ops' = Log(r, "del", TRUE, key)
  /\ req' = [req EXCEPT ![r].pc = "unpaged_find"]
  /\ UNCHANGED <<store, refilled, lastSet>>

\* A faulty variant of the paginated delete: the key is left in place.
getBooks_paged_del_skipped(r) ==
  /\ req[r].pc = "paged_del"
  /\ ops' = Log(r, "del", TRUE, Key(req[r].body))
  /\ req' = [req EXCEPT ![r].pc = "paged_get"]
  /\ refilled' = [refilled EXCEPT ![r] = FALSE]
  /\ UNCHANGED <<store, cache, lastSet, removed>>

\* Paginated path: if (limit && page) await redis.del(key)
getBooks_paged_del(r) ==
  /\ req[r].pc = "paged_del"
  /\ LET key == Key(req[r].body)
     IN /\ cache' = redis_del(cache, key)
        /\ removed' = RemovedBy("del", cache, key)
        /\ ops' = Log(r, "del", TRUE, key)
  /\ req' = [req EXCEPT ![r].pc = "paged_get"]
  /\ refilled' = [refilled EXCEPT ![r] = FALSE]
  /\ UNCHANGED <<store, lastSet>>

\* A faulty variant of the unpaged query: a cached payload is served if any.
getBooks_unpaged_find_cached(r) ==
  /\ req[r].pc = "unpaged_find"
  /\ ValidQuery(req[r].limit, req[r].offset)
  /\ LET q == findBooks(store, req[r].limit, req[r].offset)
         cachedData == redis_get(cache, Key(req[r].body))
     IN req' = [req EXCEPT ![r].pc = "done", ![r].results = q.results,
                           ![r].totalBooks = q.totalBooks,
                           ![r].outcome =
                             IF cachedData.present
                             THEN Json(200, <<"info,results", JSON_parse(cachedData.value).info,
                                              JSON_parse(cachedData.value).results>>)
                             ELSE Json(200, <<"totalBooks,results", q.totalBooks, q.results>>)]
  /\ ops' = LogFind(r, TRUE, req[r].limit, req[r].offset)
  /\ UNCHANGED <<store, cache, refilled, lastSet, removed>>

\* Unpaged path: await findBooks(limit, offset), then res.status(200).json
getBooks_unpaged_find(r) ==
  /\ req[r].pc = "unpaged_find"
  /\ ValidQuery(req[r].limit, req[r].offset)
  /\ LET q == findBooks(store, req[r].limit, req[r].offset)
     IN req' = [req EXCEPT ![r].pc = "done", ![r].results = q.results,
                           ![r].totalBooks = q.totalBooks,
                           ![r].outcome =
                             Json(200, <<"totalBooks,results", q.totalBooks, q.results>>)]
  /\ ops' = LogFind(r, TRUE, req[r].limit, req[r].offset)
  /\ UNCHANGED <<store, cache, refilled, lastSet, removed>>

\* A faulty variant of the cache read: single-flight, a miss joins the store
\* query another request has already made for the same key.
getBooks_get_single_flight(r) ==
  /\ req[r].pc = "paged_get"
  /\ LET cachedData == redis_get(cache, Key(req[r].body))
         flights == {q \in Reqs \ {r} : /\ req[q].pc \in {"paged_set", "paged_expire"}
                                        /\ Key(req[q].body) = Key(req[r].body)}
     IN IF cachedData.present
        THEN LET cachedResponse == JSON_parse(cachedData.value)
             IN req' = [req EXCEPT ![r].pc = "done", ![r].cached = "hit",
                                   ![r].outcome =
                                     Json(200, <<"info,results", cachedResponse.info,
                                                 cachedResponse.results>>)]
        ELSE IF flights # {}
        THEN LET q == CHOOSE q \in flights : TRUE
             IN req' = [req EXCEPT ![r].pc = "paged_set", ![r].cached = "miss",
                                   ![r].results = req[q].results,
                                   ![r].totalBooks = req[q].totalBooks,
                                   ![r].info = req[q].info]
        ELSE req' = [req EXCEPT ![r].pc = "paged_find", ![r].cached = "miss"]
  /\ ops' = Log(r, "get", TRUE, Key(req[r].body))
  /\ UNCHANGED <<store, cache, refilled, lastSet, removed>>

\* await redis.get(key); a cached payload is parsed and sent at once
getBooks_get(r) ==
  /\ req[r].pc = "paged_get"
  /\ LET cachedData == redis_get(cache, Key(req[r].body))
     IN IF cachedData.present
        THEN LET cachedResponse == JSON_parse(cachedData.value)
             IN req' = [req EXCEPT ![r].pc = "done", ![r].cached = "hit",
                                   ![r].outcome =
                                     Json(200, <<"info,results", cachedResponse.info,
                                                 cachedResponse.results>>)]
        ELSE req' = [req EXCEPT ![r].pc = "paged_find", ![r].cached = "miss"]
  /\ ops' = Log(r, "get", TRUE, Key(req[r].body))
  /\ UNCHANGED <<store, cache, refilled, lastSet, removed>>

\* A faulty variant of the store query: findBooks(offset, limit).
getBooks_find_swapped(r) ==
  /\ req[r].pc = "paged_find"
  /\ ValidQuery(req[r].offset, req[r].limit)
  /\ LET q == findBooks(store, req[r].offset, req[r].limit)
     IN req' = [req EXCEPT ![r].pc = "paged_set", ![r].results = q.results,
                           ![r].totalBooks = q.totalBooks,
                           ![r].info = calculatePagination(req[r].page, req[r].limit,
                                                           req[r].offset, q.totalBooks)]
  /\ ops' = LogFind(r, TRUE, req[r].offset, req[r].limit)
  /\ UNCHANGED <<store, cache, refilled, lastSet, removed>>

\* await findBooks(limit, offset); req.calculatePagination(totalBooks)
getBooks_find(r) ==
  /\ req[r].pc = "paged_find"
  /\ ValidQuery(req[r].limit, req[r].offset)
  /\ LET q == findBooks(store, req[r].limit, req[r].offset)
     IN req' = [req EXCEPT ![r].pc = "paged_set", ![r].results = q.results,
                           ![r].totalBooks = q.totalBooks,
                           ![r].info = calculatePagination(req[r].page, req[r].limit,
                                                           req[r].offset, q.totalBooks)]
  /\ ops' = LogFind(r, TRUE, req[r].limit, req[r].offset)
  /\ UNCHANGED <<store, cache, refilled, lastSet, removed>>

\* A faulty variant of the cache set: SET ... NX, which keeps an existing entry.
getBooks_set_if_absent(r) ==
  /\ req[r].pc = "paged_set"
  /\ LET key == Key(req[r].body)
         response == [info |-> req[r].info, results |-> req[r].results]
     IN /\ cache' = IF cache[key].present THEN cache
                     ELSE redis_set(cache, key, JSON_stringify(response))
        /\ lastSet' = [lastSet EXCEPT ![key] = r]
        /\ removed' = [removed EXCEPT ![key] = InPlace]
        /\ ops' = Log(r, "set", TRUE, key)
        /\ refilled' = [q \in Reqs |->
                          refilled[q] \/ (q # r /\ req[q].pc = "paged_get"
                                          /\ Key(req[q].body) = key)]
  /\ req' = [req EXCEPT ![r].pc = "paged_expire"]
  /\ UNCHANGED store

\* A faulty variant of the cache set: an empty page is not cached.
getBooks_set_nonempty(r) ==
  /\ req[r].pc = "paged_set"
  /\ LET key == Key(req[r].body)
         response == [info |-> req[r].info, results |-> req[r].results]
     IN /\ cache' = IF req[r].results = <<>> THEN cache
                     ELSE redis_set(cache, key, JSON_stringify(response))
        /\ lastSet' = [lastSet EXCEPT ![key] = r]
        /\ removed' = [removed EXCEPT ![key] = InPlace]
        /\ ops' = Log(r, "set", TRUE, key)
        /\ refilled' = [q \in Reqs |->
                          refilled[q] \/ (q # r /\ req[q].pc = "paged_get"
                                          /\ Key(req[q].body) = key)]
  /\ req' = [req EXCEPT ![r].pc = "paged_expire"]
  /\ UNCHANGED store

\* await redis.set(key, JSON.stringify(response))
getBooks_set(r) ==
  /\ req[r].pc = "paged_set"
  /\ LET key == Key(req[r].body)
         response == [info |-> req[r].info, results |-> req[r].results]
     IN /\ cache' = redis_set(cache, key, JSON_stringify(response))
        /\ lastSet' = [lastSet EXCEPT ![key] = r]
        /\ removed' = [removed EXCEPT ![key] = InPlace]
        /\ ops' = Log(r, "set", TRUE, key)
        /\ refilled' = [q \in Reqs |->
                          refilled[q] \/ (q # r /\ req[q].pc = "paged_get"
                                          /\ Key(req[q].body) = key)]
  /\ req' = [req EXCEPT ![r].pc = "paged_expire"]
  /\ UNCHANGED store

\* A faulty variant of the tail of getBooks: the empty-results check is lost.
getBooks_expire_unchecked(r) ==
  /\ req[r].pc = "paged_expire"
  /\ cache' = redis_expire(cache, Key(req[r].body), TTL)
  /\ req' = [req EXCEPT ![r].pc = "done",
                        ![r].outcome = Json(200, <<"info,results", req[r].info,
                                                   req[r].results>>)]
  /\ ops' = Log(r, "expire", TRUE, Key(req[r].body))
  /\ UNCHANGED <<store, refilled, lastSet, removed>>

\* A faulty variant of the tail of getBooks: the empty-results check comes
\* before the expire, which a NotFound then skips.
getBooks_expire_after_check(r) ==
  /\ req[r].pc = "paged_expire"
  /\ IF Len(req[r].results) < 1
     THEN /\ cache' = cache
          /\ req' = [req EXCEPT ![r].pc = "done", ![r].outcome = NextErr("NotFound")]
          /\ ops' = ops
     ELSE /\ cache' = redis_expire(cache, Key(req[r].body), TTL)
          /\ req' = [req EXCEPT ![r].pc = "done",
                                ![r].outcome = Json(200, <<"info,results", req[r].info,
                                                           req[r].results>>)]
          /\ ops' = Log(r, "expire", TRUE, Key(req[r].body))
  /\ UNCHANGED <<store, refilled, lastSet, removed>>

\* await redis.expire(key, 300); then the empty-results check and the response
getBooks_expire(r) ==
  /\ req[r].pc = "paged_expire"
  /\ cache' = redis_expire(cache, Key(req[r].body), TTL)
  /\ req' = [req EXCEPT ![r].pc = "done",
                        ![r].outcome =
                          IF Len(req[r].results) < 1
                          THEN NextErr("NotFound")
                          ELSE Json(200, <<"info,results", req[r].info, req[r].results>>)]
  /\ ops' = Log(r, "expire", TRUE, Key(req[r].body))
  /\ UNCHANGED <<store, refilled, lastSet, removed>>

\* ------------------------------------------------------- the book service
\* createBook(body): the new record, or nothing for a body that holds no book.
createBook(s, body) ==
  IF body.book = NoBook THEN s ELSE [s EXCEPT ![FreeId(s)] = body.book]
\* updateBook(id, body): the partial changes of the body applied to the record.
updateBook(s, id, body) ==
  IF body.book = NoBook THEN s ELSE [s EXCEPT ![id] = body.book]
\* removeBook(id)
removeBook(s, id) == [s EXCEPT ![id] = NoBook]

\* ------------------------------------------------------------- postBooks
postBooks(r, body) ==
  /\ req[r].pc = "idle"
  /\ req' = [req EXCEPT ![r] = [IdleReq EXCEPT !.kind = "postBooks", !.body = body,
                                               !.pc = "create"]]
  /\ ops' = [ops EXCEPT ![r] = <<>>]
  /\ UNCHANGED <<store, cache, refilled, lastSet, removed>>

\* A faulty variant of postBooks: the expire is issued before the check of
\* what createBook returned.
postBooks_create_expiring(r) ==
  /\ req[r].pc = "create"
  /\ req[r].body.book # NoBook => FreeId(store) # 0
  /\ store' = createBook(store, req[r].body)
  /\ IF req[r].body.book = NoBook
     THEN req' = [req EXCEPT ![r].pc = "done", ![r].bg = "pending",
                             ![r].outcome = NextErr("BadRequest")]
     ELSE req' = [req EXCEPT ![r].pc = "done", ![r].id = FreeId(store), ![r].bg = "pending",
                             ![r].outcome =
                               Json(201, <<"book", FreeId(store), req[r].body.book>>)]
  /\ ops' = Log(r, "create", TRUE, "")
  /\ UNCHANGED <<cache, refilled, lastSet, removed>>

\* await createBook(body); nothing created: BadRequest; else redis.expire(key, 0)
\* is issued without await and the 201 response is sent at once.
postBooks_create(r) ==
  /\ req[r].pc = "create"
  /\ req[r].body.book # NoBook => FreeId(store) # 0
  /\ store' = createBook(store, req[r].body)
  /\ IF req[r].body.book = NoBook
     THEN req' = [req EXCEPT ![r].pc = "done", ![r].outcome = NextErr("BadRequest")]
     ELSE req' = [req EXCEPT ![r].pc = "done", ![r].id = FreeId(store), ![r].bg = "pending",
                             ![r].outcome =
                               Json(201, <<"book", FreeId(store), req[r].body.book>>)]
  /\ ops' = Log(r, "create", TRUE, "")
  /\ UNCHANGED <<cache, refilled, lastSet, removed>>

\* A faulty variant of the expire of postBooks: the listing TTL instead of 0.
postBooks_expire_later(r) ==
  /\ req[r].bg = "pending"
  /\ LET key == Key(req[r].body)
     IN /\ cache' = redis_expire(cache, key, TTL)
        /\ ops' = LogSeen(r, "expire", key, {k \in Keys : cache[k].present})
  /\ req' = [req EXCEPT ![r].bg = "done"]
  /\ UNCHANGED <<store, refilled, lastSet, removed>>

\* The un-awaited redis.expire(`books_${req.body}`, 0) takes effect.
postBooks_expire(r) ==
  /\ req[r].bg = "pending"
  /\ LET key == Key(req[r].body)
     IN /\ cache' = redis_expire(cache, key, 0)
        /\ removed' = RemovedBy("expire", cache, key)
        /\ ops' = LogSeen(r, "expire", key, {k \in Keys : cache[k].present})
  /\ req' = [req EXCEPT ![r].bg = "done"]
  /\ UNCHANGED <<store, refilled, lastSet>>

\* A faulty variant of the rejected expire: the rejection is handed to next()
\* after the 201 response has been sent.
postBooks_expire_fails_next(r) ==
  /\ req[r].bg = "pending"
  /\ req' = [req EXCEPT ![r].bg = "failed", ![r].outcome = NextErr("CacheError")]
  /\ ops' = Log(r, "expire", FALSE, Key(req[r].body))
  /\ UNCHANGED <<store, cache, refilled, lastSet, removed>>

\* The un-awaited expire rejects: nothing awaits the promise, so the rejection
\* reaches neither the catch block nor next().
postBooks_expire_fails(r) ==
  /\ req[r].bg = "pending"
  /\ req' = [req EXCEPT ![r].bg = "failed"]
  /\ ops' = Log(r, "expire", FALSE, Key(req[r].body))
  /\ UNCHANGED <<store, cache, refilled, lastSet, removed>>

\* -------------------------------------------------------------- putBooks
putBooks(r, id, body) ==
  /\ req[r].pc = "idle"
  /\ req' = [req EXCEPT ![r] = [IdleReq EXCEPT !.kind = "putBooks", !.body = body,
                                               !.id = id, !.pc = "update"]]
  /\ ops' = [ops EXCEPT ![r] = <<>>]
  /\ UNCHANGED <<store, cache, refilled, lastSet, removed>>

\* await updateBook(id, body); no record: BadRequest; else 201 with the record
putBooks_update(r) ==
  /\ req[r].pc = "update"
  /\ IF store[req[r].id] = NoBook
     THEN /\ store' = store
          /\ req' = [req EXCEPT ![r].pc = "done", ![r].outcome = NextErr("BadRequest")]
     ELSE /\ store' = updateBook(store, req[r].id, req[r].body)
          /\ req' = [req EXCEPT ![r].pc = "done",
                                ![r].outcome = Json(201, <<"book", req[r].id,
                                                           store'[req[r].id]>>)]
  /\ ops' = Log(r, "update", TRUE, "")
  /\ UNCHANGED <<cache, refilled, lastSet, removed>>

\* ------------------------------------------------------------ deleteBook
deleteBook(r, id) ==
  /\ req[r].pc = "idle"
  /\ req' = [req EXCEPT ![r] = [IdleReq EXCEPT !.kind = "deleteBook", !.id = id,
                                               !.pc = "remove"]]
  /\ ops' = [ops EXCEPT ![r] = <<>>]
  /\ UNCHANGED <<store, cache, refilled, lastSet, removed>>

\* A faulty variant of deleteBook: it also drops the listing entries.
deleteBook_remove_invalidating(r) ==
  /\ req[r].pc = "remove"
  /\ IF store[req[r].id] = NoBook
     THEN /\ store' = store
          /\ req' = [req EXCEPT ![r].pc = "done", ![r].outcome = NextErr("NotFound")]
     ELSE /\ store' = removeBook(store, req[r].id)
          /\ req' = [req EXCEPT ![r].pc = "done",
                                ![r].outcome = Json(200, <<"Libro eliminado">>)]
  /\ cache' = [k \in Keys |-> NoEntry]
  /\ ops' = Log(r, "remove", TRUE, "")
  /\ UNCHANGED <<refilled, lastSet, removed>>

\* await removeBook(id); no record: NotFound; else 200 'Libro eliminado'
deleteBook_remove(r) ==
  /\ req[r].pc = "remove"
  /\ IF store[req[r].id] = NoBook
     THEN /\ store' = store
          /\ req' = [req EXCEPT ![r].pc = "done", ![r].outcome = NextErr("NotFound")]
     ELSE /\ store' = removeBook(store, req[r].id)
          /\ req' = [req EXCEPT ![r].pc = "done",
                                ![r].outcome = Json(200, <<"Libro eliminado">>)]
  /\ ops' = Log(r, "remove", TRUE, "")
  /\ UNCHANGED <<cache, refilled, lastSet, removed>>

\* ---------------------------------------------------- getMostViewedBooks
\* findMostViewedBooks(detail): the books by views, in the given detail.
findMostViewedBooks(s, detail) == <<"mostViewed", detail, AllRecords(s)>>

\* A faulty variant of the head: any non-empty detail is accepted.
getMostViewedBooks_lenient(r, detail) ==
  /\ req[r].pc = "idle"
  /\ IF detail.t = "undefined" \/ (detail.t = "string" /\ detail.s = "")
     THEN req' = [req EXCEPT ![r] = [IdleReq EXCEPT !.kind = "getMostViewedBooks",
                                                     !.detail = detail, !.pc = "done",
                                                     !.outcome = NextErr("BadRequest")]]
     ELSE req' = [req EXCEPT ![r] = [IdleReq EXCEPT !.kind = "getMostViewedBooks",
                                                     !.detail = detail, !.pc = "mostViewed"]]
  /\ ops' = [ops EXCEPT ![r] = <<>>]
  /\ UNCHANGED <<store, cache, refilled, lastSet, removed>>

\* The synchronous head: if (!detail || (detail !== 'summary' && detail !== 'full'))
\* throw BadRequest, which the catch block hands to next().
getMostViewedBooks(r, detail) ==
  /\ req[r].pc = "idle"
  /\ LET falsy == detail.t = "undefined" \/ (detail.t = "string" /\ detail.s = "")
         isSummary == detail.t = "string" /\ detail.s = "summary"
         isFull == detail.t = "string" /\ detail.s = "full"
     IN IF falsy \/ (~isSummary /\ ~isFull)
        THEN req' = [req EXCEPT ![r] = [IdleReq EXCEPT !.kind = "getMostViewedBooks",
                                                        !.detail = detail, !.pc = "done",
                                                        !.outcome = NextErr("BadRequest")]]
        ELSE req' = [req EXCEPT ![r] = [IdleReq EXCEPT !.kind = "getMostViewedBooks",
                                                        !.detail = detail, !.pc = "mostViewed"]]
  /\ ops' = [ops EXCEPT ![r] = <<>>]
  /\ UNCHANGED <<store, cache, refilled, lastSet, removed>>

\* await findMostViewedBooks(detail as string); res.status(200).json(result)
getMostViewedBooks_find(r) ==
  /\ req[r].pc = "mostViewed"
  /\ req' = [req EXCEPT ![r].pc = "done",
                        ![r].outcome = Json(200, findMostViewedBooks(store, req[r].detail.s))]
  /\ ops' = [ops EXCEPT ![r] = Append(@, Op("findMostViewed", TRUE, "", <<req[r].detail.s>>))]
  /\ UNCHANGED <<store, cache, refilled, lastSet, removed>>

\* ------------------------------------------------------------- failures
\* The operation a request is awaiting, by position.
Awaited(pc) ==
  CASE pc \in {"unpaged_del", "paged_del"} -> "del"
    [] pc = "paged_get" -> "get"
    [] pc \in {"unpaged_find", "paged_find"} -> "find"
    [] pc = "paged_set" -> "set"
    [] pc = "paged_expire" -> "expire"
    [] pc = "create" -> "create"
    [] pc = "update" -> "update"
    [] pc = "remove" -> "remove"
    [] pc = "mostViewed" -> "findMostViewed"
    [] OTHER -> "none"
ErrorOf(op) == IF op \in {"del", "get", "set", "expire"} THEN "CacheError" ELSE "StoreError"

\* The awaited store or cache call rejects: the catch block calls next(err).
AwaitRejects(r) ==
  /\ Awaited(req[r].pc) # "none"
  /\ LET op == Awaited(req[r].pc)
     IN /\ req' = [req EXCEPT ![r].pc = "done", ![r].outcome = NextErr(ErrorOf(op))]
        /\ ops' = IF op = "find"
                  THEN LogFind(r, FALSE, req[r].limit, req[r].offset)
                  ELSE Log(r, op, FALSE,
                           IF ErrorOf(op) = "CacheError" THEN Key(req[r].body) ELSE "")
  /\ UNCHANGED <<store, cache, refilled, lastSet, removed>>

\* ---------------------------------------------------------- environment
\* The TTL of an entry runs out: redis drops the key.
TTLExpires(k) ==
  /\ cache[k].present
  /\ cache[k].ttl # NoTTL
  /\ cache' = [cache EXCEPT ![k] = NoEntry]
  /\ removed' = RemovedBy("ttl", cache, k)
  /\ UNCHANGED <<store, req, ops, refilled, lastSet>>

\* The handler has returned and its promise has settled: the slot is free again.
Return(r) ==
  /\ req[r].pc = "done"
  /\ req[r].bg # "pending"
  /\ req' = [req EXCEPT ![r] = IdleReq]
  /\ ops' = [ops EXCEPT ![r] = <<>>]
  /\ refilled' = [refilled EXCEPT ![r] = FALSE]
  /\ lastSet' = [k \in Keys |-> IF lastSet[k] = r THEN 0 ELSE lastSet[k]]
  /\ UNCHANGED <<store, cache, removed>>

\* ------------------------------------------------------------ the inputs
MaxPage == 3
MaxLimit == 2
\* Listing inputs of the concurrent and sequential runs, and the wider ones of
\* the listing runs.
Pages == {Num(1), Num(2)}
WidePages == {Undefined} \cup {Num(p) : p \in (0 - 1)..MaxPage}
WideLimits == {Undefined, Num(10)} \cup {Num(l) : l \in 0..MaxLimit}
CreateBodies == {EmptyObject, BookBody("A")}

\* A request takes the lowest free slot.
FreeSlot(r) ==
  /\ req[r].pc = "idle"
  /\ \A q \in Reqs : q < r => req[q].pc # "idle"

\* A step of a listing request in flight.
ListingStep ==
  \/ \E r \in Reqs : getBooks_unpaged_del(r)
  \/ \E r \in Reqs : getBooks_unpaged_find(r)
  \/ \E r \in Reqs : getBooks_paged_del(r)
  \/ \E r \in Reqs : getBooks_get(r)
  \/ \E r \in Reqs : getBooks_find(r)
  \/ \E r \in Reqs : getBooks_set(r)
  \/ \E r \in Reqs : getBooks_expire(r)
  \/ \E r \in Reqs : AwaitRejects(r)
  \/ \E k \in Keys : TTLExpires(k)
  \/ \E r \in Reqs : Return(r)

\* A step of a write request in flight.
WriteStep ==
  \/ \E r \in Reqs : postBooks_create(r)
  \/ \E r \in Reqs : postBooks_expire(r)
  \/ \E r \in Reqs : postBooks_expire_fails(r)
  \/ \E r \in Reqs : putBooks_update(r)
  \/ \E r \in Reqs : deleteBook_remove(r)

\* Requests arrive at any time and run concurrently. Updates here rewrite the
\* first book, if the store holds it, with the content it has.
Arrive ==
  \E r \in Reqs :
    /\ FreeSlot(r)
    /\ \/ \E p \in Pages : getBooks(r, p, Num(1), EmptyObject)
       \/ getBooks(r, Undefined, Undefined, EmptyObject)
       \/ postBooks(r, BookBody("A"))
       \/ putBooks(r, 1, BookBody("A"))
       \/ \E i \in BookIds : deleteBook(r, i)

Next == Arrive \/ ListingStep \/ WriteStep
Spec == Init /\ [][Next]_vars

\* Requests executed strictly one after another: a request arrives only when
\* every earlier one has returned and its cache commands have settled.
NoneInFlight == \A r \in Reqs : req[r].pc = "idle"
SeqArrive ==
  \E r \in Reqs :
    /\ FreeSlot(r)
    /\ NoneInFlight
    /\ \/ \E p \in Pages : getBooks(r, p, Num(1), EmptyObject)
       \/ getBooks(r, Num(1), Num(1), EmptyArray)
       \/ getBooks(r, Undefined, Undefined, EmptyObject)
       \/ \E b \in CreateBodies : postBooks(r, b)
       \/ \E i \in BookIds : putBooks(r, i, BookBody("B"))
       \/ \E i \in BookIds : deleteBook(r, i)

SeqNext == SeqArrive \/ ListingStep \/ WriteStep
SeqSpec == Init /\ [][SeqNext]_vars

\* Listing requests alone, one after another, over the wide inputs.
ListArrive ==
  \E r \in Reqs :
    /\ FreeSlot(r)
    /\ NoneInFlight
    /\ \E p \in WidePages, l \in WideLimits : getBooks(r, p, l, EmptyObject)

ListNext == ListArrive \/ ListingStep
ListSpec == Init /\ [][ListNext]_vars

\* Unpaged listing requests (with neither page nor limit, or with a limit
\* alone) running concurrently with a paginated one and with deletes.
FreshArrive ==
  \E r \in Reqs :
    /\ FreeSlot(r)
    /\ \/ getBooks(r, Undefined, Undefined, EmptyObject)
       \/ getBooks(r, Undefined, Num(1), EmptyObject)
       \/ getBooks(r, Num(1), Num(MaxBooks), EmptyObject)
       \/ \E i \in BookIds : deleteBook(r, i)

FreshNext ==
  \/ FreshArrive
  \/ ListingStep
  \/ \E r \in Reqs : deleteBook_remove(r)
FreshSpec == Init /\ [][FreshNext]_vars

\* Most-viewed requests alone, running concurrently.
Details ==
  {NoDetail, DetailArray("summary")}
    \cup {Detail(d) : d \in {"", "summary", "full", "other", "Summary", "full "}}
ViewArrive == \E r \in Reqs : FreeSlot(r) /\ \E d \in Details : getMostViewedBooks(r, d)
ViewNext ==
  \/ ViewArrive
  \/ \E r \in Reqs : getMostViewedBooks_find(r)
  \/ \E r \in Reqs : AwaitRejects(r)
  \/ \E r \in Reqs : Return(r)
ViewSpec == Init /\ [][ViewNext]_vars

\* The next step of the request in slot r: the call it awaits returns or fails.
Step(r) ==
  \/ getBooks_unpaged_del(r) \/ getBooks_unpaged_find(r)
  \/ getBooks_paged_del(r) \/ getBooks_get(r) \/ getBooks_find(r)
  \/ getBooks_set(r) \/ getBooks_expire(r)
  \/ postBooks_create(r) \/ putBooks_update(r) \/ deleteBook_remove(r)
  \/ AwaitRejects(r)

\* Concurrent requests of the four handlers, every store and cache call
\* eventually returning or failing.
LiveArrive ==
  \E r \in Reqs :
    /\ FreeSlot(r)
    /\ \/ getBooks(r, Num(1), Num(1), EmptyObject)
       \/ getBooks(r, Undefined, Undefined, EmptyObject)
       \/ postBooks(r, BookBody("A"))
       \/ putBooks(r, 1, BookBody("A"))
       \/ deleteBook(r, 1)
LiveNext == LiveArrive \/ ListingStep \/ WriteStep
LiveSpec == Init /\ [][LiveNext]_vars /\ \A r \in Reqs : WF_vars(Step(r))

\* The awaited store call rejects (no cache call does).
StoreRejects(r) == AwaitRejects(r) /\ ErrorOf(Awaited(req[r].pc)) = "StoreError"

\* Concurrent listing requests and creates with a cache that does not fail.
CleanArrive ==
  \E r \in Reqs :
    /\ FreeSlot(r)
    /\ \/ \E p \in Pages : getBooks(r, p, Num(1), EmptyObject)
       \/ getBooks(r, Undefined, Undefined, EmptyObject)
       \/ postBooks(r, BookBody("A"))
CleanNext ==
  \/ CleanArrive
  \/ \E r \in Reqs : getBooks_unpaged_del(r)
  \/ \E r \in Reqs : getBooks_unpaged_find(r)
  \/ \E r \in Reqs : getBooks_paged_del(r)
  \/ \E r \in Reqs : getBooks_get(r)
  \/ \E r \in Reqs : getBooks_find(r)
  \/ \E r \in Reqs : getBooks_set(r)
  \/ \E r \in Reqs : getBooks_expire(r)
  \/ \E r \in Reqs : postBooks_create(r)
  \/ \E r \in Reqs : postBooks_expire(r)
  \/ \E r \in Reqs : StoreRejects(r)
  \/ \E k \in Keys : TTLExpires(k)
  \/ \E r \in Reqs : Return(r)
CleanSpec == Init /\ [][CleanNext]_vars

\* ------------------------------------------------------------ the claims
Issued(r, name) == \E i \in DOMAIN ops[r] : ops[r][i].op = name
Succeeded(r, name) == \E i \in DOMAIN ops[r] : ops[r][i].op = name /\ ops[r][i].ok
AllOk(r) == \A i \in DOMAIN ops[r] : ops[r][i].ok
IsListing(r) == req[r].kind = "getBooks"
Absent(x) == ~IsNum(x)
NonPositive(x) == ~IsNum(x) \/ x.v <= 0
\* The request is on the paginated path and its own store query has answered.
Fetched(r) == IsListing(r) /\ req[r].cached = "miss" /\ Succeeded(r, "find")

\* C1: every listing request whose page or limit is missing or non-positive
\* takes the unpaged path (a cache delete and a store query, nothing else) and
\* so issues no cache read, no cache set and no cache expire.
C1_NonPositiveTakesUnpagedPath ==
  \A r \in Reqs :
    (IsListing(r) /\ (NonPositive(req[r].page) \/ NonPositive(req[r].limit)))
    => /\ req[r].pc \in {"unpaged_del", "unpaged_find", "done"}
       /\ \A i \in DOMAIN ops[r] : ops[r][i].op \in {"del", "find"}

\* C2: on the unpaged path taken because page or limit is absent (also when
\* exactly one of them is present) the store is queried with no limit and no
\* offset, and the response is { totalBooks, results } with every record of the
\* store in results and their count in totalBooks.
C2_UnpagedReturnsEveryRecord ==
  \A r \in Reqs :
    (IsListing(r) /\ (Absent(req[r].page) \/ Absent(req[r].limit))
     /\ req[r].pc = "done" /\ req[r].outcome.via = "json")
    => /\ \A i \in DOMAIN ops[r] :
            ops[r][i].op = "find" => ~Truthy(ops[r][i].args[1]) /\ ~Truthy(ops[r][i].args[2])
       /\ req[r].outcome.payload =
            <<"totalBooks,results", Len(AllRecords(store)), AllRecords(store)>>

\* C3: for a paginated request with page >= 1 and limit >= 1 the pagination
\* info has offset = (page - 1) * limit and totalPages = ceil(totalItems / limit)
\* (the least n with n * limit >= totalItems, so 0 when totalItems = 0), and
\* the store was queried with exactly that limit and offset.
C3_PaginationInfo ==
  \A r \in Reqs :
    (Fetched(r) /\ req[r].page.v >= 1 /\ req[r].limit.v >= 1)
    => LET info == req[r].info
           limit == req[r].limit.v
       IN /\ info.offset = (req[r].page.v - 1) * limit
          /\ info.totalItems = req[r].totalBooks
          /\ info.totalPages * limit >= info.totalItems
          /\ (info.totalPages - 1) * limit < info.totalItems
          /\ info.totalItems = 0 => info.totalPages = 0
          /\ \A i \in DOMAIN ops[r] :
               ops[r][i].op = "find"
               => ops[r][i].args = <<Num(limit), Num((req[r].page.v - 1) * limit)>>
\* A request for page 2 of a store of two books, one per page: two pages.
C3_Witness ==
  \E r \in Reqs :
    /\ Fetched(r) /\ req[r].page = Num(2) /\ req[r].limit = Num(1)
    /\ req[r].info.totalItems = 2 /\ req[r].info.totalPages = 2 /\ req[r].info.offset = 1

\* C7: a paginated request that missed the cache and whose store fetch
\* returned no results never sends a success response, and ends with NotFound
\* when its cache set and expire went through (a failed cache call ends it with
\* that failure instead); with totalItems = 0, page = 1, limit = 10 it computes
\* results = [] and totalPages = 0.
C7_EmptyResultsNotFound ==
  \A r \in Reqs :
    /\ (Fetched(r) /\ req[r].results = <<>> /\ req[r].pc = "done")
       => /\ req[r].outcome.via = "next"
          /\ AllOk(r) => req[r].outcome.err = "NotFound"
    /\ (Fetched(r) /\ req[r].info.totalItems = 0 /\ req[r].page = Num(1)
        /\ req[r].limit = Num(10))
       => req[r].results = <<>> /\ req[r].info.totalPages = 0
\* The scenario of the claim has run to its NotFound.
C7_Witness ==
  \E r \in Reqs :
    /\ Fetched(r) /\ req[r].pc = "done" /\ req[r].page = Num(1) /\ req[r].limit = Num(10)
    /\ req[r].info.totalItems = 0 /\ req[r].results = <<>>
    /\ req[r].outcome = NextErr("NotFound")

OpNames(r) == [i \in DOMAIN ops[r] |-> ops[r][i].op]
IsPaged(r) == IsListing(r) /\ Truthy(req[r].page) /\ Truthy(req[r].limit)
Response(r) == [info |-> req[r].info, results |-> req[r].results]
ObjectKey == "books_[object Object]"
ArrayKey == "books_"

\* C4: when requests run strictly one after another, no paginated listing
\* request is answered from the cache: each one that meets no failure deletes
\* the key, misses on the read, queries the store and repopulates the cache.
C4_SequentialNeverHits ==
  \A r \in Reqs :
    IsPaged(r)
    => /\ req[r].cached # "hit"
       /\ (req[r].pc = "done" /\ AllOk(r))
          => OpNames(r) = <<"del", "get", "find", "set", "expire">>
\* A request for the page the cache held (so within its TTL) has deleted that
\* entry, missed and queried the store.
C4_Witness ==
  \E r \in Reqs :
    /\ IsPaged(r) /\ req[r].pc = "paged_set" /\ AllOk(r) /\ req[r].results # <<>>
    /\ removed[Key(req[r].body)] = [by |-> "del", page |-> req[r].page.v]
    /\ req[r].cached = "miss"

\* C5: a paginated listing request is answered from the cache only if another
\* request set the same key between this request's delete and its read.
C5_HitOnlyAfterRefill ==
  \A r \in Reqs : req[r].cached = "hit" => refilled[r]
\* Two concurrent paginated requests interleaved so that one is answered from
\* the cache.
C5_Witness ==
  \E r \in Reqs :
    /\ IsPaged(r) /\ req[r].cached = "hit" /\ req[r].pc = "done"
    /\ req[r].outcome.via = "json"

\* C6: two paginated listing requests with the same body and different pages
\* use the same cache key, and once both have completed after a miss the
\* entry under that key is the response of the one whose cache set came last
\* (as long as the key has not been removed since).
C6_LastWriterWins ==
  \A r1, r2 \in Reqs :
    (/\ r1 # r2 /\ Fetched(r1) /\ Fetched(r2)
     /\ req[r1].body = req[r2].body /\ req[r1].page # req[r2].page
     /\ req[r1].pc = "done" /\ req[r2].pc = "done"
     /\ Succeeded(r1, "set") /\ Succeeded(r2, "set"))
    => LET key == Key(req[r1].body)
           last == lastSet[key]
       IN /\ \A i \in DOMAIN ops[r1], j \in DOMAIN ops[r2] :
               (ops[r1][i].key # "" /\ ops[r2][j].key # "") => ops[r1][i].key = ops[r2][j].key
          /\ last \in {r1, r2}
          /\ cache[key].present => cache[key].value = JSON_stringify(Response(last))
          /\ removed[key] = InPlace => cache[key].present
\* Both have completed and the entry is the response for page 1, not the one
\* for page 2.
C6_Witness ==
  \E r1, r2 \in Reqs :
    /\ Fetched(r1) /\ Fetched(r2) /\ req[r1].pc = "done" /\ req[r2].pc = "done"
    /\ req[r1].page = Num(1) /\ req[r2].page = Num(2) /\ req[r1].body = req[r2].body
    /\ AllOk(r1) /\ AllOk(r2)
    /\ cache[Key(req[r1].body)].present
    /\ cache[Key(req[r1].body)].value = JSON_stringify(Response(r1))
    /\ cache[Key(req[r1].body)].value # JSON_stringify(Response(r2))

\* C8: putBooks and deleteBook issue no cache operation, whether they succeed
\* or fail: no step of theirs changes the cache.
IsUpdateOrDelete(r) == req[r].kind \in {"putBooks", "deleteBook"}
C8_UpdateAndDeleteLeaveCache ==
  [][\A r \in Reqs :
       /\ (IsUpdateOrDelete(r) /\ req'[r] # req[r] /\ req'[r].pc = "done") => cache' = cache
       /\ IsUpdateOrDelete(r) => \A i \in DOMAIN ops[r] : ops[r][i].key = ""]_vars
\* A delete has succeeded while the cache holds a listing that shows the
\* deleted book.
C8_Witness ==
  \E r \in Reqs :
    /\ req[r].kind = "deleteBook" /\ req[r].pc = "done" /\ req[r].outcome.via = "json"
    /\ cache[ObjectKey].present
    /\ \E i \in DOMAIN cache[ObjectKey].value[7] : cache[ObjectKey].value[7][i].id = req[r].id

\* The step in which the expire issued by postBooks takes effect.
CreateExpires(r) == req[r].kind = "postBooks" /\ req[r].bg = "pending" /\ req'[r].bg = "done"
\* C9 as stated: the key expired by a successful create is no key of the
\* listing cache, so every listing entry that exists before the expire
\* exists unchanged after it.
C9_CreateKeepsListingEntries ==
  [][\A r \in Reqs : CreateExpires(r) => \A k \in Keys : cache[k].present => cache'[k] = cache[k]]_vars
\* C9 as amended: the key expired by a successful create is "books_" followed
\* by the stringified body of the create, "books_[object Object]" for every
\* object body, which is the key of every listing request whose body is an
\* object: the expire removes the listing entry under that key and leaves the
\* entries under every other key unchanged.
C9_CreateExpiresObjectKey ==
  [][\A r \in Reqs :
       CreateExpires(r)
       => /\ req[r].body.t = "object"
          /\ ~cache'[ObjectKey].present
          /\ \A k \in Keys \ {ObjectKey} : cache'[k] = cache[k]]_vars
\* The expire of a create met an entry under each key, removed the one of
\* the object bodies and left the other.
C9_Witness ==
  \E r \in Reqs :
    /\ req[r].kind = "postBooks" /\ req[r].bg = "done"
    /\ ops[r][Len(ops[r])].op = "expire"
    /\ ops[r][Len(ops[r])].args = <<{ObjectKey, ArrayKey}>>
    /\ ~cache[ObjectKey].present
    /\ cache[ArrayKey].present

\* C10: a store or cache operation that fails ends its request with that
\* error passed to next(): no success response, no further operation, no retry.
C10_FailureEndsRequest ==
  \A r \in Reqs :
    \A i \in DOMAIN ops[r] :
      ~ops[r][i].ok
      => /\ i = Len(ops[r])
         /\ req[r].pc = "done"
         /\ req[r].outcome = NextErr(ErrorOf(ops[r][i].op))

\* The step in which the store query of an unpaged request answers.
UnpagedAnswers(r) ==
  /\ IsListing(r) /\ req[r].pc = "unpaged_find"
  /\ req'[r].pc = "done" /\ req'[r].outcome.via = "json"
Finds(r) == {i \in DOMAIN ops[r] : ops[r][i].op = "find"}
\* C12: there is no single-flight: every paginated request that misses the
\* cache issues exactly one store query of its own (none before its read has
\* missed, none on a hit), also when an identical request is querying already.
C12_EachMissQueriesStore ==
  \A r \in Reqs :
    IsPaged(r)
    => /\ req[r].cached = "miss"
          => Cardinality(Finds(r)) = IF req[r].pc = "paged_find" THEN 0 ELSE 1
       /\ req[r].cached # "miss" => Finds(r) = {}
\* Two identical paginated requests in flight have both missed and both
\* queried the store: two store queries for one key.
C12_Witness ==
  \E r1, r2 \in Reqs :
    /\ r1 # r2 /\ IsPaged(r1) /\ IsPaged(r2)
    /\ req[r1].page = req[r2].page /\ req[r1].limit = req[r2].limit
    /\ req[r1].body = req[r2].body
    /\ req[r1].cached = "miss" /\ req[r2].cached = "miss"
    /\ Succeeded(r1, "find") /\ Succeeded(r2, "find")

\* C13: getMostViewedBooks with a detail that is absent or anything other
\* than exactly "summary" or "full" ends with BadRequest without querying the
\* store; with "summary" or "full" it queries the store once with exactly that
\* value and responds with the result.
IsMostViewed(r) == req[r].kind = "getMostViewedBooks"
C13_MostViewedDetail ==
  \A r \in Reqs :
    IsMostViewed(r)
    => IF req[r].detail \in {Detail("summary"), Detail("full")}
       THEN /\ Len(ops[r]) <= 1
            /\ (req[r].pc = "done") = (Len(ops[r]) = 1)
            /\ (req[r].pc = "done" /\ AllOk(r))
               => /\ ops[r] = <<Op("findMostViewed", TRUE, "", <<req[r].detail.s>>)>>
                  /\ req[r].outcome = Json(200, findMostViewedBooks(store, req[r].detail.s))
       ELSE /\ req[r].pc = "done"
            /\ req[r].outcome = NextErr("BadRequest")
            /\ ops[r] = <<>>
\* One request with detail "summary" has its result while another, with
\* detail "other", has ended with BadRequest.
C13_Witness ==
  \E r1, r2 \in Reqs :
    /\ IsMostViewed(r1) /\ req[r1].detail = Detail("summary")
    /\ req[r1].outcome.via = "json" /\ req[r1].outcome.payload[2] = "summary"
    /\ IsMostViewed(r2) /\ req[r2].detail = Detail("other")
    /\ req[r2].outcome = NextErr("BadRequest")

\* The step in which the store call of a write answers (it did not fail).
WriteAnswers(r, pc) ==
  /\ req[r].pc = pc /\ req'[r].pc = "done"
  /\ ops'[r][Len(ops'[r])].ok
\* C14: a write whose target is rejected changes nothing: a create for which
\* the store returns no record ends with BadRequest and issues no cache
\* expire, an update of an identifier that resolves to no record ends with
\* BadRequest, a delete of one ends with NotFound, and in each case the
\* store and the cache are as they were.
C14_RejectedWriteChangesNothing ==
  [][\A r \in Reqs :
       /\ (WriteAnswers(r, "create") /\ req[r].body.book = NoBook)
          => /\ req'[r].outcome = NextErr("BadRequest") /\ req'[r].bg = "none"
             /\ store' = store /\ cache' = cache
       /\ (WriteAnswers(r, "update") /\ store[req[r].id] = NoBook)
          => /\ req'[r].outcome = NextErr("BadRequest")
             /\ store' = store /\ cache' = cache
       /\ (WriteAnswers(r, "remove") /\ store[req[r].id] = NoBook)
          => /\ req'[r].outcome = NextErr("NotFound")
             /\ store' = store /\ cache' = cache
       /\ (req[r].kind = "postBooks" /\ req[r].outcome.via = "next")
          => req[r].bg = "none" /\ ~Issued(r, "expire")]_vars
\* A create without a record has ended with BadRequest and the listing entry
\* under its key is still cached.
C14_Witness ==
  \E r \in Reqs :
    /\ req[r].kind = "postBooks" /\ req[r].pc = "done"
    /\ req[r].outcome = NextErr("BadRequest") /\ AllOk(r)
    /\ cache[Key(req[r].body)].present

\* C15: given that every store and cache call eventually returns or fails,
\* every request of getBooks, postBooks, putBooks and deleteBook eventually
\* ends, and it ends with exactly one outcome: one success response or one
\* error passed to next(), present exactly when the handler has ended and
\* never replaced by another.
InFlight(r) == req[r].pc \notin {"idle", "done"}
C15_EveryRequestEndsOnce ==
  /\ \A r \in Reqs : InFlight(r) ~> (req[r].pc = "done")
  /\ [](\A r \in Reqs : (req[r].pc = "done") <=> (req[r].outcome.via \in {"json", "next"}))
  /\ [][\A r \in Reqs : req[r].outcome # NoOutcome
                           => (req'[r].outcome = req[r].outcome \/ req'[r].pc = "idle")]_vars
\* Two concurrent requests have ended, one with a success response and one
\* with an error, while the expire of a create is still outstanding.
C15_Witness ==
  \E r1, r2 \in Reqs :
    /\ req[r1].pc = "done" /\ req[r1].outcome.via = "json" /\ req[r1].bg = "pending"
    /\ req[r2].pc = "done" /\ req[r2].outcome.via = "next"

\* C16: in every getBooks request, paginated or not, the first operation is
\* a cache delete of the request's own key: it precedes every cache read,
\* store query and cache set of the request, and no other delete follows.
C16_DeleteComesFirst ==
  \A r \in Reqs :
    IsListing(r)
    => /\ req[r].pc \notin {"unpaged_del", "paged_del"} => Len(ops[r]) >= 1
       /\ \A i \in DOMAIN ops[r] :
            /\ (i = 1) = (ops[r][i].op = "del")
            /\ ops[r][i].op = "del" => ops[r][i].key = Key(req[r].body)
\* A paginated request with an array body has run through: delete of
\* "books_", then read, query, set and expire.
C16_Witness ==
  \E r \in Reqs :
    /\ IsPaged(r) /\ req[r].body = EmptyArray /\ req[r].pc = "done" /\ AllOk(r)
    /\ OpNames(r) = <<"del", "get", "find", "set", "expire">>
    /\ ops[r][1].key = ArrayKey

\* C17: as long as no cache operation fails, an entry of the listing cache
\* is without expiry only while the request that set it is between its cache
\* set and its cache expire: in every other state, and so once all requests
\* have completed, every entry carries a TTL of at most 300 seconds.
BetweenSetAndExpire(k) ==
  \E r \in Reqs : IsPaged(r) /\ req[r].pc = "paged_expire" /\ Key(req[r].body) = k
C17_EntriesCarryTTL ==
  \A k \in Keys :
    (cache[k].present /\ ~BetweenSetAndExpire(k))
    => cache[k].ttl # NoTTL /\ cache[k].ttl > 0 /\ cache[k].ttl <= TTL
\* Two concurrent paginated requests have both set and expired the key and
\* completed; the entry is there with its TTL.
C17_Witness ==
  \E r1, r2 \in Reqs :
    /\ r1 # r2 /\ Fetched(r1) /\ Fetched(r2)
    /\ req[r1].pc = "done" /\ req[r2].pc = "done"
    /\ Succeeded(r1, "expire") /\ Succeeded(r2, "expire")
    /\ cache[Key(req[r1].body)].present /\ cache[Key(req[r1].body)].ttl = TTL

\* The step in which a paginated request ends with NotFound.
NotFoundEnds(r) ==
  /\ IsPaged(r) /\ req[r].pc = "paged_expire"
  /\ req'[r].pc = "done" /\ req'[r].outcome = NextErr("NotFound")
\* The entry { info, results: [] } of the request, with the listing TTL.
EmptyPageEntry(r) == Entry(JSON_stringify([info |-> req[r].info, results |-> <<>>]), TTL)
\* C18 as stated: when a paginated request that missed ends with NotFound
\* because its results are empty, the cache holds the entry { info,
\* results: [] } for its key with a 300-second TTL.
C18_NotFoundLeavesEntry ==
  [][\A r \in Reqs :
       NotFoundEnds(r) => cache'[Key(req[r].body)] = EmptyPageEntry(r)]_vars
\* C18 as amended: the cache set and expire precede the empty-results check,
\* and when the request ends with NotFound the cache holds the entry { info,
\* results: [] } for its key with a 300-second TTL provided no other request
\* has set the key and nothing has removed it since this request's own set.
C18_NotFoundAfterSetAndExpire ==
  [][\A r \in Reqs :
       NotFoundEnds(r)
       => /\ req[r].results = <<>>
          /\ [i \in DOMAIN ops'[r] |-> ops'[r][i].op] = <<"del", "get", "find", "set", "expire">>
          /\ (lastSet[Key(req[r].body)] = r /\ removed[Key(req[r].body)] = InPlace)
             => cache'[Key(req[r].body)] = EmptyPageEntry(r)]_vars
\* A request for a page beyond the last has ended with NotFound and its
\* empty page is cached with the TTL.
C18_Witness ==
  \E r \in Reqs :
    /\ IsPaged(r) /\ req[r].pc = "done" /\ req[r].outcome = NextErr("NotFound")
    /\ req[r].info.totalItems > 0
    /\ cache[Key(req[r].body)] = EmptyPageEntry(r)

\* C19: every success response of a paginated request carries the pagination
\* info and results of the page and limit the request asked for, under any
\* interleaving of concurrent paginated requests that share the cache key.
C19_ResponseIsForOwnPage ==
  \A r \in Reqs :
    (IsPaged(r) /\ req[r].pc = "done" /\ req[r].outcome.via = "json")
    => LET info == req[r].outcome.payload[2]
           results == req[r].outcome.payload[3]
       IN /\ info.currentPage = req[r].page.v
          /\ info.itemsPerPage = req[r].limit.v
          /\ info.offset = req[r].offset.v
          /\ Len(results) <= req[r].limit.v

\* C20: when requests run strictly one after another, every getBooks
\* response, paged or unpaged, is what the store holds after every create,
\* update and delete that completed before the request began: the records and
\* counts of its response are those of the store as it is.
C20_SequentialListingIsCurrent ==
  \A r \in Reqs :
    (IsListing(r) /\ req[r].pc = "done" /\ req[r].outcome.via = "json")
    => LET q == findBooks(store, req[r].limit, req[r].offset)
       IN req[r].outcome.payload =
            IF IsPaged(r)
            THEN <<"info,results",
                   calculatePagination(req[r].page, req[r].limit, req[r].offset, q.totalBooks),
                   q.results>>
            ELSE <<"totalBooks,results", q.totalBooks, q.results>>
\* A paginated request that began after an update has deleted the listing of
\* its page cached earlier and has got the updated book from the store for
\* its response.
C20_Witness ==
  \E r \in Reqs :
    /\ IsPaged(r) /\ req[r].pc = "paged_set" /\ AllOk(r)
    /\ removed[Key(req[r].body)] = [by |-> "del", page |-> req[r].page.v]
    /\ req[r].results # <<>>
    /\ req[r].results[1].book = "B"
    /\ req[r].results = findBooks(store, req[r].limit, req[r].offset).results

====
